---- MODULE Spec2Model ----
(***************************************************************************)
(* Model of the flag-forwarding shim mls-rs-uniffi/uniffi-bindgen          *)
(* (src/mls-rs-uniffi/uniffi-bindgen/src/main.rs).                         *)
(*                                                                         *)
(* main collects the process arguments into a Vec<String>, scans the       *)
(* vector once from index 0 to len-1, sets one of three environment        *)
(* variables for each recognized flag that is followed by a value, and     *)
(* then calls uniffi::uniffi_bindgen_main().                               *)
(*                                                                         *)
(* Indices are 0-based as in the source; Arg(a, k) is a[k].                *)
(***************************************************************************)
EXTENDS Integers, Sequences, FiniteSets, TLC

\* ---------------------------------------------------------------- bounds
\* longest argument vector the process is started with
MaxArgs == 4

\* ------------------------------------------------------------- vocabulary
\* the three string patterns of the match (main.rs:10, 15, 20)
Flags == {"--swift-out-dir", "--framework-name", "--ios-deployment-target"}

\* the three environment variables named in the set_var calls (main.rs:12, 17, 22)
TrackedVars == {"UNIFFI_SWIFT_OUT_DIR", "UNIFFI_FRAMEWORK_NAME", "UNIFFI_IOS_DEPLOYMENT_TARGET"}

\* an environment variable the shim has no business with
OtherVar == "PATH"

\* an OS argument that is not valid Unicode (possible on Unix, e.g. the byte 0xFF)
NonUnicodeArg == "<bytes FF>"

\* the arguments the process can be started with
Tokens == Flags \cup {"--verbose", "/tmp/out", NonUnicodeArg}

\* a variable that is absent from the environment
Unset == "<unset>"

\* what ends up in `panic`
NoPanic == "none"

\* environments the process can be started in: each tracked variable is
\* either absent or holds a value inherited from the parent process
InitEnvs == { e \in [TrackedVars \cup {OtherVar} -> {Unset, "inherited", "/bin"}] :
                /\ e[OtherVar] = "/bin"
                /\ \A v \in TrackedVars : e[v] \in {Unset, "inherited"} }

\* all argument vectors of length 0..MaxArgs
ArgVectors == UNION { [1..n -> Tokens] : n \in 0..MaxArgs }

VARIABLES
  argv,    \* the process's argument vector, as the OS holds it
  args,    \* main's `args: Vec<String>` (empty until collected)
  i,       \* the loop variable of `for i in 0..args.len()`
  env,     \* the process environment: variable name -> value or Unset
  pc,      \* where main is: "start", "scan", "call", "done", "panicked"
  panic,   \* why main panicked, or NoPanic
  calls,   \* how many times uniffi_bindgen_main was entered
  env0,    \* history: the environment the process was started with
  log      \* history: the set_var calls made so far, in order

vars == <<argv, args, i, env, pc, panic, calls, env0, log>>

\* ------------------------------------------------------- pure operators
\* args[k], 0-based
Arg(a, k) == a[k + 1]

\* str::as_str on a String is the identity on valid Unicode; the conversion
\* OsString -> String done by env::args() succeeds only on valid Unicode
ValidUnicode(s) == s # NonUnicodeArg

\* variants of the match: two arms crossed; the default arm falling through
\* to the output directory; the last arm missing
VarOfCrossed(tok) ==
  CASE tok = "--swift-out-dir"         -> "UNIFFI_FRAMEWORK_NAME"
    [] tok = "--framework-name"        -> "UNIFFI_SWIFT_OUT_DIR"
    [] tok = "--ios-deployment-target" -> "UNIFFI_IOS_DEPLOYMENT_TARGET"
    [] OTHER                           -> Unset

VarOfFallthrough(tok) ==
  CASE tok = "--framework-name"        -> "UNIFFI_FRAMEWORK_NAME"
    [] tok = "--ios-deployment-target" -> "UNIFFI_IOS_DEPLOYMENT_TARGET"
    [] OTHER                           -> "UNIFFI_SWIFT_OUT_DIR"

VarOfMissingArm(tok) ==
  CASE tok = "--swift-out-dir"         -> "UNIFFI_SWIFT_OUT_DIR"
    [] tok = "--framework-name"        -> "UNIFFI_FRAMEWORK_NAME"
    [] OTHER                           -> Unset

\* the match on args[i].as_str(): which variable a token selects, or Unset
\* for the `_ => {}` arm
VarOf(tok) ==
  CASE tok = "--swift-out-dir"         -> "UNIFFI_SWIFT_OUT_DIR"
    [] tok = "--framework-name"        -> "UNIFFI_FRAMEWORK_NAME"
    [] tok = "--ios-deployment-target" -> "UNIFFI_IOS_DEPLOYMENT_TARGET"
    [] OTHER                           -> Unset

\* variant of the bounds check: no check at all
HasValueNoCheck(a, k) == TRUE

\* the bounds check `if i + 1 < args.len()`
HasValue(a, k) == k + 1 < Len(a)

\* env::set_var(key, value)
SetVar(e, key, value) == [e EXCEPT ![key] = value]

\* the indices of args one iteration of the loop body reads
ReadIdx(a, k) ==
  {k} \cup (IF VarOf(Arg(a, k)) # Unset /\ HasValue(a, k) THEN {k + 1} ELSE {})

\* variants of the loop body: a variable that is already set is not
\* overwritten; the framework name is taken from the output-directory
\* variable instead of args[i + 1]; a flag without a value clears its variable
BodyFirstWins(a, e, k) ==
  IF VarOf(Arg(a, k)) # Unset /\ HasValue(a, k) /\ e[VarOf(Arg(a, k))] = Unset
    THEN SetVar(e, VarOf(Arg(a, k)), Arg(a, k + 1))
    ELSE e

BodyCopiesVar(a, e, k) ==
  IF VarOf(Arg(a, k)) # Unset /\ HasValue(a, k)
    THEN IF Arg(a, k) = "--framework-name"
           THEN SetVar(e, "UNIFFI_FRAMEWORK_NAME", e["UNIFFI_SWIFT_OUT_DIR"])
           ELSE SetVar(e, VarOf(Arg(a, k)), Arg(a, k + 1))
    ELSE e

BodyClearsOnMissing(a, e, k) ==
  IF VarOf(Arg(a, k)) # Unset
    THEN IF HasValue(a, k)
           THEN SetVar(e, VarOf(Arg(a, k)), Arg(a, k + 1))
           ELSE SetVar(e, VarOf(Arg(a, k)), Unset)
    ELSE e

\* the environment after one iteration of the loop body at index k
Body(a, e, k) ==
  IF VarOf(Arg(a, k)) # Unset /\ HasValue(a, k)
    THEN SetVar(e, VarOf(Arg(a, k)), Arg(a, k + 1))
    ELSE e

\* the set_var calls one iteration of the loop body makes
BodyCalls(a, k) ==
  IF VarOf(Arg(a, k)) # Unset /\ HasValue(a, k)
    THEN << [at |-> k, key |-> VarOf(Arg(a, k)), value |-> Arg(a, k + 1)] >>
    ELSE << >>

\* the whole loop `for i in 0..args.len()` from index k on, as a function
RECURSIVE ScanFrom(_, _, _)
ScanFrom(a, e, k) ==
  IF k < Len(a) THEN ScanFrom(a, Body(a, e, k), k + 1) ELSE e

Scan(a, e) == ScanFrom(a, e, 0)

\* ------------------------------------------------------------------ Init
Init ==
  /\ argv \in ArgVectors
  /\ args = << >>
  /\ i = 0
  /\ env \in InitEnvs
  /\ env0 = env
  /\ pc = "start"
  /\ panic = NoPanic
  /\ calls = 0
  /\ log = << >>

\* --------------------------------------------------------------- actions
\* let args: Vec<String> = env::args().collect();
\* std::env::args: "The returned iterator will panic during iteration if
\* any argument to the process is not valid Unicode."
Collect ==
  /\ pc = "start"
  /\ IF \A k \in 1..Len(argv) : ValidUnicode(argv[k])
       THEN /\ args' = argv
            /\ pc' = "scan"
            /\ panic' = panic
       ELSE /\ args' = args
            /\ pc' = "panicked"
            /\ panic' = "args-not-unicode"
  /\ i' = 0
  /\ UNCHANGED <<argv, env, calls, env0, log>>

\* variant of the loop: the value a flag consumed is not examined as a flag
LoopNextSkipsValue ==
  /\ pc = "scan"
  /\ i < Len(args)
  /\ env' = Body(args, env, i)
  /\ log' = log \o BodyCalls(args, i)
  /\ i' = IF BodyCalls(args, i) # << >> THEN i + 2 ELSE i + 1
  /\ UNCHANGED <<pc, panic, argv, args, calls, env0>>

\* one iteration of the for loop; indexing a Vec out of range panics
LoopNext ==
  /\ pc = "scan"
  /\ i < Len(args)
  /\ IF \E k \in ReadIdx(args, i) : k >= Len(args)
       THEN /\ pc' = "panicked"
            /\ panic' = "index-out-of-bounds"
            /\ UNCHANGED <<env, log, i>>
       ELSE /\ env' = Body(args, env, i)
            /\ log' = log \o BodyCalls(args, i)
            /\ i' = i + 1
            /\ UNCHANGED <<pc, panic>>
  /\ UNCHANGED <<argv, args, calls, env0>>

\* variant of the loop exit: the generator is reached only when some flag
\* was forwarded
LoopEndNeedsFlag ==
  /\ pc = "scan"
  /\ i >= Len(args)
  /\ log # << >>
  /\ pc' = "call"
  /\ UNCHANGED <<argv, args, i, env, panic, calls, env0, log>>

\* the range 0..args.len() is exhausted
LoopEnd ==
  /\ pc = "scan"
  /\ i >= Len(args)
  /\ pc' = "call"
  /\ UNCHANGED <<argv, args, i, env, panic, calls, env0, log>>

\* uniffi::uniffi_bindgen_main()
Delegate ==
  /\ pc = "call"
  /\ pc' = "done"
  /\ calls' = calls + 1
  /\ UNCHANGED <<argv, args, i, env, panic, env0, log>>

Next == Collect \/ LoopNext \/ LoopEnd \/ Delegate

Spec == Init /\ [][Next]_vars

\* main is a single thread that runs to completion
FairSpec == Spec /\ WF_vars(Next)

TypeOK ==
  /\ argv \in ArgVectors
  /\ args \in {argv, << >>}
  /\ i \in 0..Len(argv)
  /\ env \in [TrackedVars \cup {OtherVar} -> Tokens \cup {Unset, "inherited", "/bin"}]
  /\ pc \in {"start", "scan", "call", "done", "panicked"}
  /\ calls \in 0..1

\* ---------------------------------------------------------------- claims
SWIFT == "UNIFFI_SWIFT_OUT_DIR"
FRAMEWORK == "UNIFFI_FRAMEWORK_NAME"
TARGET == "UNIFFI_IOS_DEPLOYMENT_TARGET"

\* the flag the specification pairs with each variable
FlagFor(v) ==
  IF v = SWIFT THEN "--swift-out-dir"
  ELSE IF v = FRAMEWORK THEN "--framework-name"
  ELSE "--ios-deployment-target"

\* positions (0-based) where the flag of v occurs with a value after it
Occ(a, v) == { k \in 0..(Len(a) - 2) : Arg(a, k) = FlagFor(v) }

\* how many set_var calls were made for v
Writes(v) == Cardinality({ n \in 1..Len(log) : log[n].key = v })

Max(S) == CHOOSE m \in S : \A n \in S : n <= m

Finished == pc \in {"call", "done"}

\* C1: a scan step at a position i with i+1 < len(args) that holds
\* --swift-out-dir, --framework-name or --ios-deployment-target assigns
\* args[i+1] to UNIFFI_SWIFT_OUT_DIR, UNIFFI_FRAMEWORK_NAME or
\* UNIFFI_IOS_DEPLOYMENT_TARGET respectively and to no other variable; after
\* scanning ["--swift-out-dir", "/tmp/out"] the output directory variable is
\* "/tmp/out".
C1_FlagAssignsNextValue ==
  /\ [][ (pc = "scan" /\ i + 1 < Len(args)) =>
           /\ Arg(args, i) = "--swift-out-dir" =>
                env' = [env EXCEPT ![SWIFT] = Arg(args, i + 1)]
           /\ Arg(args, i) = "--framework-name" =>
                env' = [env EXCEPT ![FRAMEWORK] = Arg(args, i + 1)]
           /\ Arg(args, i) = "--ios-deployment-target" =>
                env' = [env EXCEPT ![TARGET] = Arg(args, i + 1)] ]_vars
  /\ []((Finished /\ args = <<"--swift-out-dir", "/tmp/out">>) => env[SWIFT] = "/tmp/out")

C1_Witness ==
  /\ pc = "call"
  /\ args = <<"--swift-out-dir", "/tmp/out">>
  /\ env0[SWIFT] = "inherited"
  /\ env[SWIFT] = "/tmp/out"

\* C2: once the scan is under way it completes and control then transfers to
\* uniffi_bindgen_main exactly once, whatever flags were found; the transfer
\* happens only after the whole vector was scanned, and no set_var call
\* follows it; with an empty argument vector nothing is set and the transfer
\* still happens.
C2_TransferOnceAfterScan ==
  /\ [](calls <= 1)
  /\ [](pc = "done" <=> calls = 1)
  /\ [](calls = 1 => (i = Len(args) /\ args = argv))
  /\ [][calls >= 1 => (env' = env /\ log' = log /\ calls' = calls)]_vars
  /\ [][calls' # calls => (pc = "call" /\ calls' = calls + 1)]_vars
  /\ (pc = "scan") ~> (calls = 1)
  /\ [](argv = << >> => (log = << >> /\ env = env0))
  /\ (argv = << >>) ~> (calls = 1)

C2_Witness ==
  /\ pc = "done"
  /\ calls = 1
  /\ Len(log) = 2
  /\ env # env0

\* C3 as stated: a recognized flag in the last position is skipped without
\* error, no index >= len(args) is read, and whenever --swift-out-dir is the
\* final element no environment variable is set at all.
C3_Original ==
  /\ panic # "index-out-of-bounds"
  /\ (pc = "scan" /\ i < Len(args)) => \A k \in ReadIdx(args, i) : k < Len(args)
  /\ (Finished /\ Len(args) > 0 /\ Arg(args, Len(args) - 1) = "--swift-out-dir") =>
        (log = << >> /\ env = env0)

\* C3 amended: a recognized flag in the last position is skipped without
\* error: no index >= len(args) is read and that occurrence assigns nothing;
\* variables are still set by recognized flags at earlier positions, and
\* when no recognized flag stands before the last position (as in
\* ["--swift-out-dir"]) no environment variable is set.
C3_LastFlagSkipped ==
  /\ [](panic # "index-out-of-bounds")
  /\ []((pc = "scan" /\ i < Len(args)) => \A k \in ReadIdx(args, i) : k < Len(args))
  /\ [][ (pc = "scan" /\ i + 1 = Len(args) /\ Arg(args, i) \in Flags) =>
           (env' = env /\ log' = log /\ pc' = "scan" /\ i' = i + 1) ]_vars
  /\ [](\A n \in 1..Len(log) : log[n].at + 1 < Len(args))
  /\ []((/\ Finished
         /\ Len(args) > 0
         /\ Arg(args, Len(args) - 1) \in Flags
         /\ \A k \in 0..(Len(args) - 2) : Arg(args, k) \notin Flags)
          => (log = << >> /\ env = env0))

C3_Witness ==
  /\ pc = "call"
  /\ args = <<"--framework-name", "/tmp/out", "--swift-out-dir">>
  /\ Len(log) = 1
  /\ env[SWIFT] = env0[SWIFT]

C5_Original ==
  Finished => \A v \in TrackedVars :
                 Writes(v) = (IF Occ(args, v) # {} THEN 1 ELSE 0)

\* C5 amended: each occurrence of a recognized flag that is followed by a
\* value produces exactly one assignment to its variable, so a variable is
\* written as many times as its flag occurs with a following value: at most
\* once when the flag is not repeated, several times when it is.
C5_OneWritePerOccurrence ==
  Finished => \A v \in TrackedVars : Writes(v) = Cardinality(Occ(args, v))

C5_Witness ==
  /\ pc = "call"
  /\ args = <<"--swift-out-dir", "/tmp/out", "--swift-out-dir", "--verbose">>
  /\ Writes(SWIFT) = 2

\* C6: main never fails: for every argument vector the process can be
\* started with, neither collecting the arguments, nor indexing, nor set_var
\* panics.
C6_NoFailure == pc # "panicked" /\ panic = NoPanic

\* C7: when the scan has ended, a variable whose flag occurred with a
\* following value holds the value that follows the last such occurrence.
C7_LastWriteWins ==
  Finished => \A v \in TrackedVars :
                 Occ(args, v) # {} => env[v] = Arg(args, Max(Occ(args, v)) + 1)

C7_Witness ==
  /\ pc = "call"
  /\ args = <<"--framework-name", "/tmp/out", "--framework-name", "--verbose">>
  /\ env[FRAMEWORK] = "--verbose"

\* C8: the environment the scan leaves is the scan function applied to the
\* initial environment, and scanning the same vector a second time from that
\* environment leaves every variable as the first scan left it.
C8_ScanIdempotent ==
  Finished => /\ env = Scan(args, env0)
              /\ Scan(args, env) = env
              /\ Scan(args, Scan(args, env0)) = Scan(args, env0)

C8_Witness ==
  /\ pc = "call"
  /\ Len(log) >= 2
  /\ env0[SWIFT] = "inherited"
  /\ env[SWIFT] \notin {"inherited", Unset}
  /\ env[FRAMEWORK] # env0[FRAMEWORK]

\* C9: the scan starts at position 0 and every iteration moves to the next
\* position, also after a value was taken; every position holding a
\* recognized flag with a value after it makes its assignment, position 0
\* and positions just used as a value included: ["--swift-out-dir",
\* "--framework-name", "/tmp/out"] ends with UNIFFI_SWIFT_OUT_DIR =
\* "--framework-name" and UNIFFI_FRAMEWORK_NAME = "/tmp/out".
C9_EveryPositionExamined ==
  /\ [][(pc = "start" /\ pc' = "scan") => i' = 0]_vars
  /\ [][(pc = "scan" /\ i < Len(args)) => i' = i + 1]_vars
  /\ [](Finished =>
          { log[n].at : n \in 1..Len(log) } =
          { k \in 0..(Len(args) - 2) : Arg(args, k) \in Flags })
  /\ []((Finished /\ args = <<"--swift-out-dir", "--framework-name", "/tmp/out">>) =>
          (env[SWIFT] = "--framework-name" /\ env[FRAMEWORK] = "/tmp/out"))

C9_Witness ==
  /\ pc = "call"
  /\ args = <<"--swift-out-dir", "--framework-name", "/tmp/out">>
  /\ env[SWIFT] = "--framework-name"
  /\ env[FRAMEWORK] = "/tmp/out"
  /\ env[TARGET] = env0[TARGET]

\* C10: no step changes a variable outside the three tracked ones, removes
\* a variable that was set, or changes the argument vector; when the scan
\* has ended, the generator is handed the original arguments and a tracked
\* variable whose flag never occurred with a following value still has the
\* value the process was started with.
C10_Frame ==
  /\ [][ /\ argv' = argv
         /\ DOMAIN env' = DOMAIN env
         /\ env'[OtherVar] = env[OtherVar]
         /\ \A v \in DOMAIN env : env[v] # Unset => env'[v] # Unset ]_vars
  /\ [](\A n \in 1..Len(log) : log[n].key \in TrackedVars)
  /\ [](Finished =>
          /\ args = argv
          /\ \A v \in TrackedVars : Occ(args, v) = {} => env[v] = env0[v])

C10_Witness ==
  /\ pc = "done"
  /\ args = <<"--verbose", "--swift-out-dir", "/tmp/out", "--framework-name">>
  /\ env0[FRAMEWORK] = "inherited"
  /\ env[FRAMEWORK] = "inherited"
  /\ env[SWIFT] = "/tmp/out"
====
